---- MODULE Spec2Model ----
(***************************************************************************)
(* A model of json-parser-by-rust: the Tokenizer (src/src/tokenizer.rs),   *)
(* the recursive-descent Parser (src/src/parser.rs), the Generator         *)
(* (src/src/generator.rs), the character classifier (src/src/json_util.rs) *)
(* and the pretty_json pipeline (src/src/main.rs).                         *)
(*                                                                         *)
(* A char is a one-character string; the control characters, which have no *)
(* printable form, are the strings "BS", "TAB", "LF", "FF" and "CR".  A    *)
(* Rust String or VecDeque<char> is a sequence of chars.  An error message *)
(* is the sequence of the pieces that format! joins.                       *)
(***************************************************************************)
EXTENDS Integers, Sequences, FiniteSets, TLC

\* F(e), with e evaluated once: the let of a value that is used more than
\* once.
Let(e, F(_)) == CHOOSE r \in {F(x) : x \in {e}} : TRUE

(***************************************************************************)
(* Characters                                                              *)
(***************************************************************************)

Digits == {"0", "1", "2", "3", "4", "5", "6", "7", "8", "9"}

\* The Unicode scalar value of each char the model uses.
CharCode ==
    [c \in {"BS", "TAB", "LF", "FF", "CR", " ", "\"", ",", "-", "/", ":",
            "[", "\\", "]", "a", "b", "e", "f", "l", "n", "r", "s", "t", "u",
            "x", "{", "}"} \cup Digits |->
        CASE c = "BS" -> 8   [] c = "TAB" -> 9  [] c = "LF" -> 10
          [] c = "FF" -> 12  [] c = "CR" -> 13  [] c = " " -> 32
          [] c = "\"" -> 34  [] c = "," -> 44   [] c = "-" -> 45
          [] c = "/" -> 47   [] c = "0" -> 48   [] c = "1" -> 49
          [] c = "2" -> 50   [] c = "3" -> 51   [] c = "4" -> 52
          [] c = "5" -> 53   [] c = "6" -> 54   [] c = "7" -> 55
          [] c = "8" -> 56   [] c = "9" -> 57   [] c = ":" -> 58
          [] c = "[" -> 91   [] c = "\\" -> 92  [] c = "]" -> 93
          [] c = "a" -> 97   [] c = "b" -> 98   [] c = "e" -> 101
          [] c = "f" -> 102  [] c = "l" -> 108  [] c = "n" -> 110
          [] c = "r" -> 114  [] c = "s" -> 115  [] c = "t" -> 116
          [] c = "u" -> 117  [] c = "x" -> 120  [] c = "{" -> 123
          [] c = "}" -> 125]

Chars == DOMAIN CharCode

is_ascii_digit(c) == c \in Digits

\* is_whitespace without its line feed arm.
is_whitespace_NoLineFeed(c) ==
    \/ CharCode[c] = 32
    \/ CharCode[c] = 9
    \/ CharCode[c] = 13

is_whitespace(c) ==
    \/ CharCode[c] = 32
    \/ CharCode[c] = 9
    \/ CharCode[c] = 10
    \/ CharCode[c] = 13

is_unescaped(c) ==
    \/ CharCode[c] \in 32..33
    \/ CharCode[c] \in 35..91
    \/ CharCode[c] >= 93

is_escape_target(c) == CharCode[c] \in {34, 92, 47, 98, 102, 110, 114, 116}

\* Option<char>: <<>> is None, <<d>> is Some(d).
escape(c) ==
    CASE CharCode[c] = 34  -> <<"\"">>
      [] CharCode[c] = 92  -> <<"\\">>
      [] CharCode[c] = 47  -> <<"/">>
      [] CharCode[c] = 98  -> <<"BS">>
      [] CharCode[c] = 102 -> <<"FF">>
      [] CharCode[c] = 110 -> <<"LF">>
      [] CharCode[c] = 114 -> <<"CR">>
      [] CharCode[c] = 116 -> <<"TAB">>
      [] OTHER -> <<>>

(***************************************************************************)
(* i64 values.  An i64 is kept as its sign and the decimal digits of its   *)
(* magnitude without leading zeros, so that values with twenty digits can  *)
(* be told from i64::MAX.                                                  *)
(***************************************************************************)

DigitVal == [c \in Digits |-> CharCode[c] - 48]

I64MaxDigits ==
    <<"9", "2", "2", "3", "3", "7", "2", "0", "3", "6", "8", "5", "4", "7",
      "7", "5", "8", "0", "7">>

I64Zero == [neg |-> FALSE, mag |-> <<"0">>]

RECURSIVE StripZeros(_)
StripZeros(ds) ==
    IF Len(ds) > 1 /\ Head(ds) = "0" THEN StripZeros(Tail(ds)) ELSE ds

\* mag > i64::MAX, both without leading zeros.
ExceedsI64Max(mag) ==
    \/ Len(mag) > Len(I64MaxDigits)
    \/ /\ Len(mag) = Len(I64MaxDigits)
       /\ \E i \in 1..Len(mag) :
            /\ DigitVal[mag[i]] > DigitVal[I64MaxDigits[i]]
            /\ \A j \in 1..(i - 1) : mag[j] = I64MaxDigits[j]

\* str::parse::<i64> on a run of ASCII digits: Err on the empty string and
\* on a value above i64::MAX.
ParseI64(digits) ==
    IF digits = <<>> THEN [ok |-> FALSE, val |-> I64Zero]
    ELSE IF ExceedsI64Max(StripZeros(digits)) THEN [ok |-> FALSE, val |-> I64Zero]
    ELSE [ok |-> TRUE, val |-> [neg |-> FALSE, mag |-> StripZeros(digits)]]

\* -num for num >= 0.
NegI64(num) ==
    IF num.mag = <<"0">> THEN I64Zero ELSE [neg |-> TRUE, mag |-> num.mag]

\* i64's Display.
I64ToString(num) == (IF num.neg THEN <<"-">> ELSE <<>>) \o num.mag

(***************************************************************************)
(* Tokens                                                                  *)
(***************************************************************************)

Tok(kind) == [kind |-> kind, text |-> <<>>, int |-> I64Zero]
TokInt(num) == [kind |-> "Int", text |-> <<>>, int |-> num]
TokString(ident) == [kind |-> "String", text |-> ident, int |-> I64Zero]
TokBoolean(b) ==
    [kind |-> "Boolean", text |-> IF b THEN <<"true">> ELSE <<"false">>,
     int |-> I64Zero]

\* Result<Token, String> of a tokenizer method, with the input left behind.
\* st = "Panic" is the unwinding of expect().
TOk(tok, inp) == [st |-> "Ok", tok |-> tok, err |-> <<>>, inp |-> inp]
TErr(err, inp) == [st |-> "Err", tok |-> Tok("Eof"), err |-> err, inp |-> inp]
TPanic(inp) == [st |-> "Panic", tok |-> Tok("Eof"), err |-> <<>>, inp |-> inp]

(***************************************************************************)
(* Tokenizer                                                               *)
(***************************************************************************)

skip_whitespaces_OneChar(inp) ==
    IF inp # <<>> /\ is_whitespace(Head(inp)) THEN Tail(inp) ELSE inp

RECURSIVE skip_whitespaces(_)
skip_whitespaces(inp) ==
    IF inp # <<>> /\ is_whitespace(Head(inp))
    THEN skip_whitespaces(Tail(inp))
    ELSE inp

Tokenizer_consume_AnyChar(inp, c) ==
    IF inp = <<>>
    THEN [ok |-> FALSE,
          err |-> <<"The tokenizer expected ", c, ", but reached EOF.">>,
          inp |-> inp]
    ELSE [ok |-> TRUE, err |-> <<>>, inp |-> Tail(inp)]

\* Result<char, String> of Tokenizer::consume: the char is popped in every
\* case that finds one.
Tokenizer_consume(inp, c) ==
    IF inp = <<>>
    THEN [ok |-> FALSE,
          err |-> <<"The tokenizer expected ", c, ", but reached EOF.">>,
          inp |-> inp]
    ELSE IF Head(inp) = c
    THEN [ok |-> TRUE, err |-> <<>>, inp |-> Tail(inp)]
    ELSE [ok |-> FALSE,
          err |-> <<"The tokenizer expected ", c, ", but found ", Head(inp), ".">>,
          inp |-> Tail(inp)]

\* consume(c)? for each c of word in turn, then Ok(tok).
RECURSIVE consume_all(_, _, _)
consume_all(inp, word, tok) ==
    IF word = <<>> THEN TOk(tok, inp)
    ELSE Let(Tokenizer_consume(inp, Head(word)), LAMBDA r :
             IF r.ok THEN consume_all(r.inp, Tail(word), tok)
             ELSE TErr(r.err, r.inp))

tokenize_true(inp) == consume_all(inp, <<"t", "r", "u", "e">>, TokBoolean(TRUE))

tokenize_false(inp) ==
    consume_all(inp, <<"f", "a", "l", "s", "e">>, TokBoolean(FALSE))

tokenize_null(inp) == consume_all(inp, <<"n", "u", "l", "l">>, Tok("Null"))

\* The while-let loop of read_digits: the digits popped and the input left.
RECURSIVE pop_digits(_, _)
pop_digits(digits, inp) ==
    IF inp # <<>> /\ is_ascii_digit(Head(inp))
    THEN pop_digits(Append(digits, Head(inp)), Tail(inp))
    ELSE [digits |-> digits, inp |-> inp]

\* read_digits: ok = FALSE is the panic of expect().
read_digits(inp) ==
    Let(pop_digits(<<>>, inp), LAMBDA d :
    Let(ParseI64(d.digits), LAMBDA p :
        [ok |-> p.ok, num |-> p.val, inp |-> d.inp]))

tokenize_number(inp) ==
    IF inp # <<>> /\ Head(inp) = "-"
    THEN Let(read_digits(Tail(inp)), LAMBDA r :
             IF r.ok THEN TOk(TokInt(NegI64(r.num)), r.inp) ELSE TPanic(r.inp))
    ELSE Let(read_digits(inp), LAMBDA r :
             IF r.ok THEN TOk(TokInt(r.num), r.inp) ELSE TPanic(r.inp))

\* Option<char> of pop_escape, with the input left behind.
pop_escape(inp) ==
    IF inp # <<>> /\ is_escape_target(Head(inp))
    THEN [c |-> escape(Head(inp)), inp |-> Tail(inp)]
    ELSE [c |-> <<>>, inp |-> inp]

\* The loop of tokenize_string.  The arm Some('\\') only looks at the front,
\* so pop_escape is called with the backslash still at the front of the
\* input, as here.
RECURSIVE string_loop(_, _)
string_loop(ident, inp) ==
    IF inp = <<>>
    THEN TErr(<<"The tokenizer reached EOF before finding \" which represents the end of a string">>, inp)
    ELSE IF Head(inp) = "\\"
    THEN Let(pop_escape(inp), LAMBDA e :
             IF e.c = <<>>
             THEN TErr(<<"The next of \\ must be a escaped character">>, e.inp)
             ELSE string_loop(ident \o e.c, e.inp))
    ELSE IF Head(inp) = "\""
    THEN TOk(TokString(ident), Tail(inp))
    ELSE IF is_unescaped(Head(inp))
    THEN string_loop(Append(ident, Head(inp)), Tail(inp))
    ELSE TErr(<<"The tokenizer found a unexpected character while tokenizing string.">>, inp)

tokenize_string(inp) ==
    Let(Tokenizer_consume(inp, "\""), LAMBDA q :
        IF q.ok THEN string_loop(<<>>, q.inp) ELSE TErr(q.err, q.inp))

next_token(input) ==
    Let(skip_whitespaces(input), LAMBDA inp :
       IF inp = <<>> THEN TOk(Tok("Eof"), inp)
       ELSE LET c == Head(inp)
            IN CASE is_ascii_digit(c) -> tokenize_number(inp)
                 [] c = "-" -> tokenize_number(inp)
                 [] c = "{" -> TOk(Tok("LeftCurlyBranckt"), Tail(inp))
                 [] c = "}" -> TOk(Tok("RightCurlyBranckt"), Tail(inp))
                 [] c = "[" -> TOk(Tok("LeftSquareBrancket"), Tail(inp))
                 [] c = "]" -> TOk(Tok("RightSquareBrancket"), Tail(inp))
                 [] c = ":" -> TOk(Tok("Colon"), Tail(inp))
                 [] c = "," -> TOk(Tok("Comma"), Tail(inp))
                 [] c = "\"" -> tokenize_string(inp)
                 [] c = "t" -> tokenize_true(inp)
                 [] c = "f" -> tokenize_false(inp)
                 [] c = "n" -> tokenize_null(inp)
                 [] OTHER ->
                      TErr(<<"The tokenizer found an unexpected character '", c, "'.">>, inp))

Iterator_next_EofIsAnItem(input) ==
    Let(next_token(input), LAMBDA r :
        [kind |-> CASE r.st = "Panic" -> "Panic"
                    [] r.st = "Ok" /\ r.tok.kind = "Eof" /\ input = <<>> -> "None"
                    [] r.st = "Ok" -> "Ok"
                    [] OTHER -> "Err",
         tok |-> r.tok, err |-> r.err, inp |-> r.inp])

\* Iterator::next: Ok(Eof) becomes None, every other result is an item.
Iterator_next(input) ==
    Let(next_token(input), LAMBDA r :
        [kind |-> CASE r.st = "Panic" -> "Panic"
                    [] r.st = "Ok" /\ r.tok.kind = "Eof" -> "None"
                    [] r.st = "Ok" -> "Ok"
                    [] OTHER -> "Err",
         tok |-> r.tok, err |-> r.err, inp |-> r.inp])

(***************************************************************************)
(* Parser.  A Node is [t, s, kids]: t the variant, s the text of a Number, *)
(* String or Boolean, kids the elements of an Array or the members of an   *)
(* Object in IndexMap order, each [k |-> key, n |-> Node] (k is empty for  *)
(* an array element).                                                      *)
(*                                                                         *)
(* tokenizer.rs declares the numeric token as Int(i64) and parser.rs       *)
(* matches it as Number(String): the model hands the parser the i64 in its *)
(* decimal form, the only text the token still carries.                    *)
(***************************************************************************)

NodeNull == [t |-> "Null", s |-> <<>>, kids |-> <<>>]
NodeNumber(num) == [t |-> "Number", s |-> num, kids |-> <<>>]
NodeString(value) == [t |-> "String", s |-> value, kids |-> <<>>]
NodeBoolean(v) == [t |-> "Boolean", s |-> v, kids |-> <<>>]
NodeArray(values) == [t |-> "Array", s |-> <<>>, kids |-> values]
NodeObject(kvm) == [t |-> "Object", s |-> <<>>, kids |-> kvm]

POk(node, toks) == [ok |-> TRUE, node |-> node, err |-> <<>>, toks |-> toks]
PErr(err, toks) == [ok |-> FALSE, node |-> NodeNull, err |-> err, toks |-> toks]

\* {:#?} of a token: the variant's name, and the payload of the variants
\* that have one (the line breaks of the pretty form are left out).
DebugToken(tok) ==
    CASE tok.kind = "Int" -> <<"Int(">> \o I64ToString(tok.int) \o <<")">>
      [] tok.kind = "String" -> <<"String(">> \o tok.text \o <<")">>
      [] tok.kind = "Boolean" -> <<"Boolean(">> \o tok.text \o <<")">>
      [] OTHER -> <<tok.kind>>

Parser_consume(toks, token) ==
    IF toks = <<>>
    THEN [ok |-> FALSE, err |-> <<"Expected a token ">> \o DebugToken(token),
          toks |-> toks]
    ELSE IF Head(toks) = token
    THEN [ok |-> TRUE, err |-> <<>>, toks |-> Tail(toks)]
    ELSE [ok |-> FALSE,
          err |-> <<"Expected a token ">> \o DebugToken(token)
                  \o <<", but found an unexpected token ">>
                  \o DebugToken(Head(toks)),
          toks |-> Tail(toks)]

assume_EndOfInputCloses(toks, token) ==
    IF toks = <<>> THEN [hit |-> TRUE, toks |-> toks]
    ELSE IF Head(toks) = token
    THEN [hit |-> TRUE, toks |-> Tail(toks)]
    ELSE [hit |-> FALSE, toks |-> toks]

assume(toks, token) ==
    IF toks # <<>> /\ Head(toks) = token
    THEN [hit |-> TRUE, toks |-> Tail(toks)]
    ELSE [hit |-> FALSE, toks |-> toks]

\* IndexMap::insert: a key already in the map keeps its place and takes the
\* new value; a new key goes to the end.
\* An insert that removes the old entry of the key and pushes the new one.
IndexMap_insert_MoveToEnd(kvm, key, value) ==
    Append(SelectSeq(kvm, LAMBDA e : e.k # key), [k |-> key, n |-> value])

IndexMap_insert_SortedByKey(kvm, key, value) ==
    LET rest == SelectSeq(kvm, LAMBDA e : e.k # key)
        less(a, b) == CharCode[a[1]] < CharCode[b[1]]
    IN SelectSeq(rest, LAMBDA e : less(e.k, key))
       \o <<[k |-> key, n |-> value]>>
       \o SelectSeq(rest, LAMBDA e : ~less(e.k, key))

IndexMap_insert(kvm, key, value) ==
    IF \E i \in 1..Len(kvm) : kvm[i].k = key
    THEN [i \in 1..Len(kvm) |->
            IF kvm[i].k = key THEN [k |-> key, n |-> value] ELSE kvm[i]]
    ELSE Append(kvm, [k |-> key, n |-> value])

int(toks) ==
    IF toks # <<>> /\ Head(toks).kind = "Int"
    THEN POk(NodeNumber(I64ToString(Head(toks).int)), Tail(toks))
    ELSE PErr(<<"Parse found an unexpected token while parsing int.">>,
              IF toks = <<>> THEN toks ELSE Tail(toks))

boolean(toks) ==
    IF toks # <<>> /\ Head(toks).kind = "Boolean"
    THEN POk(NodeBoolean(Head(toks).text), Tail(toks))
    ELSE PErr(<<"Parse found an unexpected token while parsing boolean.">>,
              IF toks = <<>> THEN toks ELSE Tail(toks))

null(toks) ==
    IF toks # <<>> /\ Head(toks).kind = "Null"
    THEN POk(NodeNull, Tail(toks))
    ELSE PErr(<<"Parse found an unexpected token while parsing null.">>,
              IF toks = <<>> THEN toks ELSE Tail(toks))

string(toks) ==
    IF toks # <<>> /\ Head(toks).kind = "String"
    THEN POk(NodeString(Head(toks).text), Tail(toks))
    ELSE PErr(<<"Parse found an unexpected token while parsing string.">>,
              IF toks = <<>> THEN toks ELSE Tail(toks))

RECURSIVE value(_), object(_), object_loop(_, _), member(_), array(_),
          array_loop(_, _)

value_FoundTokenNotNamed(toks) ==
    IF toks = <<>> \/ Head(toks).kind \in {"Colon", "Comma", "RightCurlyBranckt",
                                          "RightSquareBrancket", "Eof"}
    THEN PErr(<<"Parse found an unexpected token while parsing value.">>, toks)
    ELSE CASE Head(toks).kind = "LeftCurlyBranckt" -> object(toks)
           [] Head(toks).kind = "LeftSquareBrancket" -> array(toks)
           [] Head(toks).kind = "Int" -> int(toks)
           [] Head(toks).kind = "String" -> string(toks)
           [] Head(toks).kind = "Boolean" -> boolean(toks)
           [] OTHER -> null(toks)

value(toks) ==
    IF toks = <<>>
    THEN PErr(<<"Parse found an unexpected token while parsing value.">>, toks)
    ELSE CASE Head(toks).kind = "LeftCurlyBranckt" -> object(toks)
           [] Head(toks).kind = "LeftSquareBrancket" -> array(toks)
           [] Head(toks).kind = "Int" -> int(toks)
           [] Head(toks).kind = "String" -> string(toks)
           [] Head(toks).kind = "Boolean" -> boolean(toks)
           [] Head(toks).kind = "Null" -> null(toks)
           [] OTHER ->
                PErr(<<"Parse found an unexpected token ">>
                     \o DebugToken(Head(toks))
                     \o <<" while parsing value.">>, toks)

\* (key, value) of a member: node is the value, key the key.
member(toks) ==
    Let(string(toks), LAMBDA k :
        IF ~k.ok THEN [ok |-> FALSE, key |-> <<>>, node |-> NodeNull,
                       err |-> k.err, toks |-> k.toks]
        ELSE Let(Parser_consume(k.toks, Tok("Colon")), LAMBDA c :
            IF ~c.ok THEN [ok |-> FALSE, key |-> <<>>, node |-> NodeNull,
                           err |-> c.err, toks |-> c.toks]
            ELSE Let(value(c.toks), LAMBDA v :
                [ok |-> v.ok, key |-> k.node.s, node |-> v.node,
                 err |-> v.err, toks |-> v.toks])))

\* The loop of object, entered with the members inserted so far.
object_loop(kvm, toks) ==
    Let(assume(toks, Tok("RightCurlyBranckt")), LAMBDA a :
        IF a.hit THEN POk(NodeObject(kvm), a.toks)
        ELSE Let(Parser_consume(toks, Tok("Comma")), LAMBDA c :
            IF ~c.ok THEN PErr(c.err, c.toks)
            ELSE Let(member(c.toks), LAMBDA m :
                IF ~m.ok THEN PErr(m.err, m.toks)
                ELSE Let(IndexMap_insert(kvm, m.key, m.node), LAMBDA kvm2 :
                         object_loop(kvm2, m.toks)))))

object(toks) ==
    Let(Parser_consume(toks, Tok("LeftCurlyBranckt")), LAMBDA c :
        IF ~c.ok THEN PErr(c.err, c.toks)
        ELSE Let(assume(c.toks, Tok("RightCurlyBranckt")), LAMBDA a :
            IF a.hit THEN POk(NodeObject(<<>>), a.toks)
            ELSE Let(member(c.toks), LAMBDA m :
                IF ~m.ok THEN PErr(m.err, m.toks)
                ELSE Let(IndexMap_insert(<<>>, m.key, m.node), LAMBDA kvm :
                         object_loop(kvm, m.toks)))))

array_loop_TrailingCommaAllowed(values, toks) ==
    Let(assume(toks, Tok("RightSquareBrancket")), LAMBDA a :
        IF a.hit THEN POk(NodeArray(values), a.toks)
        ELSE Let(Parser_consume(toks, Tok("Comma")), LAMBDA c :
            IF ~c.ok THEN PErr(c.err, c.toks)
            ELSE Let(assume(c.toks, Tok("RightSquareBrancket")), LAMBDA b :
                IF b.hit THEN POk(NodeArray(values), b.toks)
                ELSE Let(value(c.toks), LAMBDA v :
                    IF ~v.ok THEN PErr(v.err, v.toks)
                    ELSE array_loop(Append(values, [k |-> <<>>, n |-> v.node]),
                                    v.toks)))))

\* The loop of array, entered with the values pushed so far.
array_loop(values, toks) ==
    Let(assume(toks, Tok("RightSquareBrancket")), LAMBDA a :
        IF a.hit THEN POk(NodeArray(values), a.toks)
        ELSE Let(Parser_consume(toks, Tok("Comma")), LAMBDA c :
            IF ~c.ok THEN PErr(c.err, c.toks)
            ELSE Let(value(c.toks), LAMBDA v :
                IF ~v.ok THEN PErr(v.err, v.toks)
                ELSE Let(Append(values, [k |-> <<>>, n |-> v.node]), LAMBDA values2 :
                         array_loop(values2, v.toks)))))

array(toks) ==
    Let(Parser_consume(toks, Tok("LeftSquareBrancket")), LAMBDA c :
        IF ~c.ok THEN PErr(c.err, c.toks)
        ELSE Let(assume(c.toks, Tok("RightSquareBrancket")), LAMBDA a :
            IF a.hit THEN POk(NodeArray(<<>>), a.toks)
            ELSE Let(value(c.toks), LAMBDA v :
                IF ~v.ok THEN PErr(v.err, v.toks)
                ELSE array_loop(<<[k |-> <<>>, n |-> v.node]>>, v.toks))))

json_text(toks) == value(toks)

parse(toks) == json_text(toks)

(***************************************************************************)
(* Generator                                                               *)
(***************************************************************************)

\* " ".repeat(n)
RECURSIVE Repeat(_, _)
Repeat(c, n) == IF n = 0 THEN <<>> ELSE <<c>> \o Repeat(c, n - 1)

\* String::pop: drops the last char, and leaves the empty string as it is.
String_pop(str) == IF str = <<>> THEN str ELSE SubSeq(str, 1, Len(str) - 1)

\* bool::to_string
BoolToString(v) ==
    IF v = <<"true">> THEN <<"t", "r", "u", "e">> ELSE <<"f", "a", "l", "s", "e">>

inc_indent_PrefixDropped(val, indent_size) == Repeat(" ", indent_size)

inc_indent(val, indent_size) == Repeat(" ", indent_size) \o val

add_prefix(val, prefix) == prefix \o val

generate_string(val) == <<"\"">> \o val \o <<"\"">>

RECURSIVE generate_impl(_, _, _), generate_object_inner(_, _, _),
          generate_array_inner(_, _, _), object_members(_, _, _),
          array_elements(_, _, _)

generate_object(kvm, prefix, indent_size) ==
    <<"{", "LF">> \o generate_object_inner(kvm, prefix, indent_size)
    \o <<"LF">> \o prefix \o <<"}">>

generate_array(arr, prefix, indent_size) ==
    <<"[", "LF">> \o generate_array_inner(arr, prefix, indent_size)
    \o <<"LF">> \o prefix \o <<"]">>

generate_impl(node, prefix, indent_size) ==
    CASE node.t = "Null" -> <<"n", "u", "l", "l">>
      [] node.t = "Number" -> node.s
      [] node.t = "String" -> generate_string(node.s)
      [] node.t = "Boolean" -> BoolToString(node.s)
      [] node.t = "Object" -> generate_object(node.kids, prefix, indent_size)
      [] node.t = "Array" -> generate_array(node.kids, prefix, indent_size)

\* The for loop of generate_object_inner: every member with its ",\n".
object_members(kvm, new_prefix, indent_size) ==
    IF kvm = <<>> THEN <<>>
    ELSE add_prefix(generate_string(Head(kvm).k) \o <<":", " ">>
                    \o generate_impl(Head(kvm).n, new_prefix, indent_size)
                    \o <<",", "LF">>, new_prefix)
         \o object_members(Tail(kvm), new_prefix, indent_size)

generate_object_inner(kvm, prefix, indent_size) ==
    Let(inc_indent(prefix, indent_size), LAMBDA new_prefix :
    Let(object_members(kvm, new_prefix, indent_size), LAMBDA inner :
    Let(String_pop(inner), LAMBDA inner1 : String_pop(inner1))))

\* The for loop of generate_array_inner: every element with its ",\n".
array_elements(arr, new_prefix, indent_size) ==
    IF arr = <<>> THEN <<>>
    ELSE add_prefix(generate_impl(Head(arr).n, new_prefix, indent_size),
                    new_prefix)
         \o <<",", "LF">>
         \o array_elements(Tail(arr), new_prefix, indent_size)

generate_array_inner(arr, prefix, indent_size) ==
    Let(inc_indent(prefix, indent_size), LAMBDA new_prefix :
    Let(array_elements(arr, new_prefix, indent_size), LAMBDA inner :
    Let(String_pop(inner), LAMBDA inner1 : String_pop(inner1))))

generate(node, indent_size) == generate_impl(node, <<>>, indent_size)

(***************************************************************************)
(* The inputs of the model: every text of at most MaxLen chars over        *)
(* Alphabet, and families of longer texts built by shape.                  *)
(***************************************************************************)

MaxLen == 3
MaxDigits == 3
MaxBody == 3
MaxMembers == 3
MaxElems == 2
MaxIndent == 2
MaxToks == 3

SeqsUpTo(S, n) == UNION {[1..k -> S] : k \in 0..n}

RECURSIVE Concat(_)
Concat(parts) == IF parts = <<>> THEN <<>> ELSE Head(parts) \o Concat(Tail(parts))

RECURSIVE Join(_, _)
Join(parts, sep) ==
    IF Len(parts) <= 1 THEN Concat(parts)
    ELSE Head(parts) \o sep \o Join(Tail(parts), sep)

Alphabet == {"[", "]", ",", "1", "-", " ", "\"", "x"}

ShortTexts == SeqsUpTo(Alphabet, MaxLen)

\* An optional '-' and a run of digits: the short ones, and the ones around
\* i64::MAX = 9223372036854775807.
DigitRuns ==
    (SeqsUpTo({"0", "1", "9"}, MaxDigits) \ {<<>>})
    \cup {I64MaxDigits,
          <<"0", "0">> \o I64MaxDigits,
          SubSeq(I64MaxDigits, 1, 18) \o <<"8">>,
          <<"1">> \o [i \in 1..19 |-> "0"]}

NumberTexts == {sign \o ds : sign \in {<<>>, <<"-">>}, ds \in DigitRuns}

\* A '-' with no digit after it.
BareMinusTexts ==
    {<<"-">>, <<"-", "x">>, <<"-", " ", "1">>, <<"-", "-", "1">>,
     <<"[", "-", "]">>, <<"-", "\"", "a", "\"">>, <<" ", "-", ",">>}

BodyChars == {"a", "n", "u", "\\", "\"", "LF"}

\* A string literal, closed or not, and one for every escape letter.
StringTexts ==
    {<<"\"">> \o body \o close :
        body \in SeqsUpTo(BodyChars, MaxBody), close \in {<<>>, <<"\"">>}}
    \cup {<<"\"", "\\", c, "\"">> : c \in {"/", "b", "f", "r", "t", "x", "1"}}
    \cup {<<"[", "\"", "\\", c, "a", "\"", "]">> : c \in {"n", "u", "\""}}

Keys == {<<"a">>, <<"b">>}

Vals == {<<"1">>, <<"[", "2", "]">>}

MemberText(m) == <<"\"">> \o m[1] \o <<"\"", ":">> \o m[2]

\* {"k":v,...} with at most MaxMembers members, keys repeated or not.
ObjectTexts ==
    {<<"{">> \o Join([i \in 1..Len(ms) |-> MemberText(ms[i])], <<",">>) \o <<"}">> :
        ms \in SeqsUpTo(Keys \X Vals, MaxMembers)}

Elems ==
    {<<"1">>, <<"0", "7">>, <<"\"", "a", "\"">>, <<"[", "]">>, <<"{", "}">>,
     <<"t", "r", "u", "e">>, <<"n", "u", "l", "l">>,
     <<"{", "\"", "b", "\"", ":", "[", "2", "]", ",", "\"", "b", "\"", ":", "1", "}">>}

\* [v, ...] with at most MaxElems elements, with and without blanks, alone
\* and with a second value after it.
ArrayTexts ==
    {<<"[">> \o Join(vs, sep) \o <<"]">> \o rest :
        vs \in SeqsUpTo(Elems, MaxElems), sep \in {<<",">>, <<" ", ",", "LF">>},
        rest \in {<<>>, <<" ", "1">>}}

\* Objects of three members whose keys are pairwise distinct, in every order.
KeyOrders ==
    {ks \in [1..3 -> Keys \cup {<<"e">>}] : \A i, j \in 1..3 : ks[i] = ks[j] => i = j}

PermutedObjectTexts ==
    {<<"{">> \o Join([i \in 1..3 |-> MemberText(<<ks[i], vs[i]>>)], <<",">>) \o <<"}">> :
        ks \in KeyOrders, vs \in [1..3 -> Vals]}

\* Arrays and objects with a ',' right before the closing bracket, at the top
\* and one level down.
TrailingCommaTexts ==
    {<<"[">> \o Join(vs, <<",">>) \o <<",">> \o gap \o <<"]">> :
        vs \in SeqsUpTo(Elems, MaxElems) \ {<<>>}, gap \in {<<>>, <<" ">>}}
    \cup
    {<<"{">> \o Join([i \in 1..Len(ms) |-> MemberText(ms[i])], <<",">>)
            \o <<",">> \o gap \o <<"}">> :
        ms \in SeqsUpTo(Keys \X Vals, MaxElems) \ {<<>>}, gap \in {<<>>, <<" ">>}}
    \cup
    {<<"[", "[", "1", ",", "]", "]">>,
     <<"[", "1", ",", "[", "2", "]", ",", "]", " ", "1">>,
     <<"[", "{", "\"", "a", "\"", ":", "1", ",", "}", "]">>,
     <<"{", "\"", "a", "\"", ":", "[", "1", ",", "]", ",", "\"", "b", "\"", ":", "1", "}">>,
     <<"{", "\"", "a", "\"", ":", "{", "\"", "b", "\"", ":", "1", ",", "}", "}">>}

\* A token that cannot start a value where the parser asks for one: at the
\* top, as the first element, after a ',' of an array, after the ':' of a
\* member, one or two levels down.
ValueContexts ==
    {<<>>, <<"[">>, <<"[", "1", ",">>, <<"{", "\"", "a", "\"", ":">>,
     <<"[", "[", "]", ",", " ">>,
     <<"{", "\"", "a", "\"", ":", "1", ",", "\"", "b", "\"", ":">>,
     <<"[", "{", "\"", "a", "\"", ":", "[">>}

NonValueChars == {":", ",", "}", "]"}

NonValueTexts ==
    {ctx \o <<c>> \o rest :
        ctx \in ValueContexts, c \in NonValueChars,
        rest \in {<<>>, <<"1">>, <<"}">>, <<" ", "]">>}}

Keywords == {<<"t", "r", "u", "e">>, <<"f", "a", "l", "s", "e">>, <<"n", "u", "l", "l">>}

\* Every non-empty prefix of a keyword, whole or cut, followed by the end of
\* the text, a blank, a letter or another token.
KeywordTexts ==
    UNION {{lead \o SubSeq(w, 1, k) \o rest :
                k \in 1..Len(w), lead \in {<<>>, <<" ">>},
                rest \in {<<>>, <<" ">>, <<"x">>, <<"e">>, <<"l">>, <<",", "1">>, <<"]">>}} :
           w \in Keywords}

\* Containers three and four levels deep.
NestedTexts ==
    {<<"[", "[", "1", ",", "{", "\"", "a", "\"", ":", "[", "2", ",", "\"",
     "a", "\"", "]", "}", "]", ",", "t", "r", "u", "e", "]">>,
     <<"{", "\"", "a", "\"", ":", "{", "\"", "b", "\"", ":", "{", "\"", "a",
     "\"", ":", "[", "1", ",", "[", "2", "]", "]", "}", "}", ",", "\"", "b",
     "\"", ":", "n", "u", "l", "l", "}">>}

\* Tokens by their text, and the blanks put before, between and after them.
\* Two numbers next to each other would read as one, so a sequence of atoms
\* never has them adjacent.
WsAtoms ==
    {[text |-> <<"[">>, tok |-> Tok("LeftSquareBrancket")],
     [text |-> <<",">>, tok |-> Tok("Comma")],
     [text |-> <<"\"", "a", " ", "b", "\"">>, tok |-> TokString(<<"a", " ", "b">>)],
     [text |-> <<"1", "2">>, tok |-> TokInt([neg |-> FALSE, mag |-> <<"1", "2">>])],
     [text |-> <<"t", "r", "u", "e">>, tok |-> TokBoolean(TRUE)]}

WsAtomSeqs ==
    {as \in SeqsUpTo(WsAtoms, MaxToks) :
        \A i \in 1..(Len(as) - 1) : ~(as[i].tok.kind = "Int" /\ as[i + 1].tok.kind = "Int")}

\* <<before, between, after>>
GapPlans ==
    {<<<<>>, <<>>, <<>>>>,
     <<<<" ">>, <<" ">>, <<" ">>>>,
     <<<<>>, <<"LF", "TAB">>, <<>>>>,
     <<<<"CR", " ">>, <<>>, <<"TAB">>>>,
     <<<<>>, <<>>, <<"LF", "CR">>>>}

WsText(as, gaps) ==
    gaps[1] \o Join([i \in 1..Len(as) |-> as[i].text], gaps[2]) \o gaps[3]

WsTexts == {WsText(as, gaps) : as \in WsAtomSeqs, gaps \in GapPlans}

\* Complete values as token sequences, up to three levels deep, and the text
\* of every sequence of tokens that is the front of one.
ScalarToks ==
    {<<TokInt([neg |-> FALSE, mag |-> <<"1">>])>>, <<TokString(<<"a">>)>>,
     <<Tok("Null")>>}

ArraysOf(vals) ==
    {<<Tok("LeftSquareBrancket")>> \o Join(vs, <<Tok("Comma")>>)
     \o <<Tok("RightSquareBrancket")>> : vs \in SeqsUpTo(vals, MaxElems)}

ObjectsOf(vals) ==
    {<<Tok("LeftCurlyBranckt")>>
     \o Join([i \in 1..Len(vs) |-> <<TokString(<<"a">>), Tok("Colon")>> \o vs[i]],
             <<Tok("Comma")>>)
     \o <<Tok("RightCurlyBranckt")>> : vs \in SeqsUpTo(vals, MaxElems)}

FlatValueToks == ArraysOf(ScalarToks) \cup ObjectsOf(ScalarToks)

CompleteValueToks ==
    ScalarToks \cup FlatValueToks
    \cup {<<Tok("LeftSquareBrancket")>> \o v \o <<Tok("RightSquareBrancket")>> :
            v \in FlatValueToks}
    \cup {<<Tok("LeftSquareBrancket")>> \o v
          \o <<Tok("Comma"), Tok("Null"), Tok("RightSquareBrancket")>> :
            v \in FlatValueToks}
    \cup {<<Tok("LeftCurlyBranckt"), TokString(<<"a">>), Tok("Colon")>> \o v
          \o <<Tok("RightCurlyBranckt")>> : v \in FlatValueToks}

ProperPrefixToks ==
    UNION {{SubSeq(v, 1, k) : k \in 0..(Len(v) - 1)} : v \in CompleteValueToks}

TokText(tok) ==
    CASE tok.kind = "Int" -> tok.int.mag
      [] tok.kind = "String" -> <<"\"">> \o tok.text \o <<"\"">>
      [] tok.kind = "Null" -> <<"n", "u", "l", "l">>
      [] tok.kind = "LeftSquareBrancket" -> <<"[">>
      [] tok.kind = "RightSquareBrancket" -> <<"]">>
      [] tok.kind = "LeftCurlyBranckt" -> <<"{">>
      [] tok.kind = "RightCurlyBranckt" -> <<"}">>
      [] tok.kind = "Colon" -> <<":">>
      [] tok.kind = "Comma" -> <<",">>

ToksText(toks) == Concat([i \in 1..Len(toks) |-> TokText(toks[i])])

PrefixTexts == {ToksText(toks) : toks \in ProperPrefixToks \cup CompleteValueToks}

Inputs ==
    ShortTexts \cup NumberTexts \cup BareMinusTexts \cup StringTexts
    \cup ObjectTexts \cup ArrayTexts \cup PermutedObjectTexts
    \cup TrailingCommaTexts \cup NonValueTexts \cup KeywordTexts
    \cup NestedTexts \cup WsTexts \cup PrefixTexts

(***************************************************************************)
(* The state machine.  A run is either the pipeline of pretty_json         *)
(* (pc = "collect", "parse", "generate", "done"), or a caller that pulls   *)
(* the Tokenizer's iterator item by item (pc = "iter"), as the tests of    *)
(* tokenizer.rs do.  pc = "aborted" is a panic.                            *)
(***************************************************************************)

VARIABLES
    json,         \* the text given to pretty_json or to Tokenizer::new
    indent_size,  \* the indent width given to pretty_json
    pc,           \* where the run is
    input,        \* Tokenizer.input, the chars not yet popped
    item,         \* what the last call of next() returned
    tokens,       \* the VecDeque<Token> collected, then Parser.tokens
    node,         \* the Node parse returned
    result,       \* the Result<String, String> of pretty_json
    pass,         \* 1, and 2 when the output of pass 1 is formatted again
    first,        \* the result of pass 1, kept in pass 2
    ran           \* the stages called so far in this call of pretty_json

vars == <<json, indent_size, pc, input, item, tokens, node, result, pass, first, ran>>

NoItem == [kind |-> "NoCall", tok |-> Tok("Eof"), err |-> <<>>]
NoResult == [kind |-> "None", text |-> <<>>]
ResultOk(text) == [kind |-> "Ok", text |-> text]
ResultErr_Reworded(err) == [kind |-> "Err", text |-> <<"Error: ">> \o err]

ResultErr(err) == [kind |-> "Err", text |-> err]

Init ==
    /\ json \in Inputs
    /\ pc \in {"collect", "iter"}
    /\ indent_size \in (IF pc = "iter" THEN {0} ELSE 0..MaxIndent)
    /\ input = json
    /\ item = NoItem
    /\ tokens = <<>>
    /\ node = NodeNull
    /\ result = NoResult
    /\ pass = 1
    /\ first = NoResult
    /\ ran = {}

\* A caller's tokenizer.next().
IterNext ==
    /\ pc = "iter"
    /\ \E r \in {Iterator_next(input)} :
          /\ input' = r.inp
          /\ item' = [kind |-> r.kind, tok |-> r.tok, err |-> r.err]
          /\ pc' = IF r.kind = "Panic" THEN "aborted" ELSE "iter"
    /\ UNCHANGED <<json, indent_size, tokens, node, result, pass, first, ran>>

\* One next() of tokenizer.collect::<Result<VecDeque<Token>, _>>()?: an Ok
\* item is pushed, the first Err item is returned, None ends the collecting.
Collect ==
    /\ pc = "collect"
    /\ \E r \in {Iterator_next(input)} :
          /\ input' = r.inp
          /\ item' = [kind |-> r.kind, tok |-> r.tok, err |-> r.err]
          /\ tokens' = IF r.kind = "Ok" THEN Append(tokens, r.tok) ELSE tokens
          /\ result' = IF r.kind = "Err" THEN ResultErr(r.err) ELSE result
          /\ pc' = CASE r.kind = "Ok" -> "collect"
                     [] r.kind = "None" -> "parse"
                     [] r.kind = "Err" -> "done"
                     [] OTHER -> "aborted"
    /\ ran' = ran \cup {"tokenizer"}
    /\ UNCHANGED <<json, indent_size, node, pass, first>>

\* parser.parse()?
Parse ==
    /\ pc = "parse"
    /\ \E r \in {parse(tokens)} :
          /\ tokens' = r.toks
          /\ node' = r.node
          /\ result' = IF r.ok THEN result ELSE ResultErr(r.err)
          /\ pc' = IF r.ok THEN "generate" ELSE "done"
    /\ ran' = ran \cup {"parser"}
    /\ UNCHANGED <<json, indent_size, input, item, pass, first>>

\* Ok(gen.generate())
Generate ==
    /\ pc = "generate"
    /\ result' = ResultOk(generate(node, indent_size))
    /\ pc' = "done"
    /\ ran' = ran \cup {"generator"}
    /\ UNCHANGED <<json, indent_size, input, item, tokens, node, pass, first>>

\* pretty_json called again on the text it returned, at the same width.
Reformat ==
    /\ pc = "done"
    /\ pass = 1
    /\ result.kind = "Ok"
    /\ first' = result
    /\ pass' = 2
    /\ input' = result.text
    /\ item' = NoItem
    /\ tokens' = <<>>
    /\ node' = NodeNull
    /\ result' = NoResult
    /\ pc' = "collect"
    /\ ran' = {}
    /\ UNCHANGED <<json, indent_size>>

Next == IterNext \/ Collect \/ Parse \/ Generate \/ Reformat

Spec == Init /\ [][Next]_vars

(***************************************************************************)
(* Shapes of input the claims speak of, stated on the text alone.          *)
(***************************************************************************)

Blank == {" ", "TAB", "LF", "CR"}

EscapeLetters == {"\"", "\\", "/", "b", "f", "n", "r", "t"}

\* What each escape letter stands for (RFC 8259, section 7).
Decoded ==
    [c \in EscapeLetters |->
        CASE c = "b" -> "BS" [] c = "f" -> "FF" [] c = "n" -> "LF"
          [] c = "r" -> "CR" [] c = "t" -> "TAB" [] OTHER -> c]

\* One or more ASCII digits.
IsDigitRun(text) == text # <<>> /\ \A i \in 1..Len(text) : text[i] \in Digits

\* An optional '-' and one or more ASCII digits.
IsIntLiteral(text) ==
    \/ IsDigitRun(text)
    \/ text # <<>> /\ text[1] = "-" /\ IsDigitRun(Tail(text))

\* The next token of inp starts with a '-' that no digit follows.
BareMinusAtFront(inp) ==
    \E i \in 1..Len(inp) :
        /\ inp[i] = "-"
        /\ \A j \in 1..(i - 1) : inp[j] \in Blank
        /\ i = Len(inp) \/ inp[i + 1] \notin Digits

\* The next token of inp is a string literal whose first backslash, after
\* ordinary chars only, is followed by a char that is no escape letter.
BadEscapeAtFront(inp) ==
    \E q \in 1..Len(inp) : \E i \in (q + 1)..(Len(inp) - 1) :
        /\ inp[q] = "\""
        /\ \A j \in 1..(q - 1) : inp[j] \in Blank
        /\ \A j \in (q + 1)..(i - 1) :
              inp[j] \notin {"\"", "\\"} /\ CharCode[inp[j]] >= 32
        /\ inp[i] = "\\"
        /\ inp[i + 1] \notin EscapeLetters

(***************************************************************************)
(* Claims                                                                  *)
(***************************************************************************)

\* C1: an empty Array is generated as exactly `[]` and an empty Object as
\* exactly `{}` at every indent width, and the inputs `[]` and `{}` come out
\* of the pipeline as themselves.
C1_EmptyContainersCollapse ==
    (pc = "done" /\ pass = 1 /\ result.kind = "Ok") =>
        /\ node = NodeArray(<<>>) => result.text = <<"[", "]">>
        /\ node = NodeObject(<<>>) => result.text = <<"{", "}">>
        /\ json \in {<<"[", "]">>, <<"{", "}">>} => result.text = json

\* C2: an optional '-' and one or more digits is tokenized into a number
\* token that carries exactly the source chars, and the pipeline prints the
\* literal unchanged.
C2_IntLiteralVerbatim ==
    IsIntLiteral(json) =>
        /\ pc # "aborted"
        /\ item.kind = "Ok" =>
              item.tok.kind = "Int" /\ I64ToString(item.tok.int) = json
        /\ (pc = "done" /\ pass = 1) => result = ResultOk(json)

\* C3: when pretty_json(x, n) succeeds with y, pretty_json(y, n) succeeds
\* and returns exactly y.
C3_RoundTripIdempotent ==
    pass = 2 =>
        /\ pc # "aborted"
        /\ pc = "done" => result = first

C3_Witness ==
    /\ pass = 2
    /\ pc = "done"
    /\ result.kind = "Ok"
    /\ result = first
    /\ result.text # json
    /\ node.t = "Array"
    /\ \E i \in 1..Len(node.kids) :
          /\ node.kids[i].n.t = "String"
          /\ \E j \in 1..Len(node.kids[i].n.s) : node.kids[i].n.s[j] = "\\"

\* C4: every call of next() that yields an item (a token or an error) has
\* advanced the cursor, so the sequence of items is finite.
C4_EveryItemAdvances ==
    [][(pc = "iter" /\ item'.kind \in {"Ok", "Err"}) => Len(input') < Len(input)]_vars

\* C5: a call of next_token with the cursor at a '-' that no digit follows
\* returns a LexError; it does not abort.
C5_BareMinusIsLexError ==
    [][(pc \in {"iter", "collect"} /\ BareMinusAtFront(input)) => item'.kind = "Err"]_vars

\* C6: a digit run of any length (here: without a leading zero), also one
\* above the signed 64-bit range, is tokenized without overflow or failure
\* and printed unchanged.
C6_DigitRunNeverEvaluated ==
    (IsDigitRun(json) /\ (Len(json) = 1 \/ json[1] # "0")) =>
        /\ pc # "aborted"
        /\ (pc = "done" /\ pass = 1) => result = ResultOk(json)

\* C7: when parse returns a Document for the collected token buffer, no
\* token of the buffer remains.
C7_ParseConsumesAllTokens ==
    pc = "generate" => tokens = <<>>

\* C8: in a string literal, a backslash and an escape letter are decoded
\* into the one mapped char: the String token of `"\c"` holds that char.
C8_EscapeDecoded ==
    \A c \in EscapeLetters :
        (json = <<"\"", "\\", c, "\"">> /\ pc = "iter" /\ item.kind # "NoCall"
         /\ input = <<>>)
            => item.kind \in {"Ok", "None"} /\ (item.kind = "Ok" => item.tok = TokString(<<Decoded[c]>>))

\* C9: a call of next_token with the cursor at a string literal in which a
\* backslash is followed by a char other than " \ / b f n r t returns a
\* LexError and no String token.
C9_BadEscapeIsLexError ==
    [][(pc \in {"iter", "collect"} /\ BadEscapeAtFront(input)) => item'.kind = "Err"]_vars

\* What C10 expects of {"k":v,...} given as the sequence ms of its <<k, v>>:
\* the keys in the order of their first occurrence, each with the value of
\* its last occurrence.
ValNode(v) ==
    IF v = <<"1">> THEN NodeNumber(<<"1">>)
    ELSE NodeArray(<<[k |-> <<>>, n |-> NodeNumber(<<"2">>)]>>)

LastOf(ms, key) ==
    CHOOSE i \in 1..Len(ms) :
        ms[i][1] = key /\ \A j \in (i + 1)..Len(ms) : ms[j][1] # key

ExpectedKids(ms) ==
    LET firsts == SelectSeq([i \in 1..Len(ms) |-> i],
                            LAMBDA i : \A j \in 1..(i - 1) : ms[j][1] # ms[i][1])
    IN [n \in 1..Len(firsts) |->
          [k |-> ms[firsts[n]][1], n |-> ValNode(ms[LastOf(ms, ms[firsts[n]][1])][2])]]

ObjectSources ==
    {[text |-> <<"{">> \o Join([i \in 1..Len(ms) |-> MemberText(ms[i])], <<",">>)
               \o <<"}">>,
      ms |-> ms] : ms \in SeqsUpTo(Keys \X Vals, MaxMembers)}

RECURSIVE KeysDistinct(_)
KeysDistinct(n) ==
    /\ n.t = "Object" =>
          \A i, j \in 1..Len(n.kids) : n.kids[i].k = n.kids[j].k => i = j
    /\ \A i \in 1..Len(n.kids) : KeysDistinct(n.kids[i].n)

\* C10: an Object parsed from a text that names a key more than once holds
\* the key once, with the value of its last occurrence at the place of its
\* first; the keys of every Object are pairwise distinct.
C10_DuplicateKeyLastWinsInPlace ==
    /\ KeysDistinct(node)
    /\ (pc = "generate" /\ pass = 1) =>
          \A src \in ObjectSources :
              src.text = json => node = NodeObject(ExpectedKids(src.ms))

C10_Witness ==
    /\ pc = "generate"
    /\ pass = 1
    /\ \E src \in ObjectSources :
          /\ src.text = json
          /\ Len(src.ms) = 3
          /\ src.ms[1][1] = src.ms[3][1]
          /\ src.ms[1][1] # src.ms[2][1]
          /\ src.ms[1][2] # src.ms[3][2]
          /\ Len(node.kids) = 2
          /\ node.kids[1] = [k |-> src.ms[1][1], n |-> ValNode(src.ms[3][2])]

\* The text without its blanks.
Squeeze(text) == SelectSeq(text, LAMBDA c : c \notin Blank)

Scalars ==
    {<<"1">>, <<"\"", "a", "\"">>, <<"t", "r", "u", "e">>, <<"n", "u", "l", "l">>}

ScalarNode(v) ==
    CASE v = <<"1">> -> NodeNumber(<<"1">>)
      [] v = <<"\"", "a", "\"">> -> NodeString(<<"a">>)
      [] v = <<"t", "r", "u", "e">> -> NodeBoolean(<<"true">>)
      [] OTHER -> NodeNull

\* The texts whose members or elements are listed one by one: the objects
\* with pairwise distinct keys and the arrays of scalars, each with the
\* Document and the text without blanks that keep the order of the source.
OrderedSources ==
    {[text |-> src.text,
      node |-> NodeObject([i \in 1..Len(src.ms) |->
                  [k |-> src.ms[i][1], n |-> ValNode(src.ms[i][2])]]),
      compact |-> src.text] :
        src \in {s \in ObjectSources :
                    \A i, j \in 1..Len(s.ms) : s.ms[i][1] = s.ms[j][1] => i = j}}
    \cup
    {[text |-> <<"{">> \o Join([i \in 1..3 |-> MemberText(<<ks[i], vs[i]>>)], <<",">>)
               \o <<"}">>,
      node |-> NodeObject([i \in 1..3 |-> [k |-> ks[i], n |-> ValNode(vs[i])]]),
      compact |-> <<"{">> \o Join([i \in 1..3 |-> MemberText(<<ks[i], vs[i]>>)], <<",">>)
                  \o <<"}">>] :
        ks \in KeyOrders, vs \in [1..3 -> Vals]}
    \cup
    {[text |-> <<"[">> \o Join(vs, sep) \o <<"]">>,
      node |-> NodeArray([i \in 1..Len(vs) |-> [k |-> <<>>, n |-> ScalarNode(vs[i])]]),
      compact |-> <<"[">> \o Join(vs, <<",">>) \o <<"]">>] :
        vs \in SeqsUpTo(Scalars, MaxElems), sep \in {<<",">>, <<" ", ",", "LF">>}}

OrderedTexts == {src.text : src \in OrderedSources}

\* C11: the members of an object with pairwise distinct keys and the
\* elements of an array are held by the parsed Document in the order of the
\* source, and the generated text lists them in that order, whatever the
\* lexical order of the keys.
C11_SourceOrderKept ==
    (pass = 1 /\ pc \in {"generate", "done"} /\ json \in OrderedTexts) =>
        \A src \in OrderedSources :
            src.text = json =>
                /\ node = src.node
                /\ pc = "done" =>
                      /\ result.kind = "Ok"
                      /\ Squeeze(result.text) = src.compact

C11_Witness ==
    /\ pc = "done"
    /\ pass = 1
    /\ json \in PermutedObjectTexts
    /\ node.kids[1].k = <<"e">>
    /\ node.kids[2].k = <<"b">>
    /\ node.kids[3].k = <<"a">>
    /\ Squeeze(result.text) = json

Openers == {"LeftSquareBrancket", "LeftCurlyBranckt"}
Closers == {"RightSquareBrancket", "RightCurlyBranckt"}

\* The brackets open after the first n tokens.
OpenAfter(toks, n) ==
    Cardinality({i \in 1..n : toks[i].kind \in Openers})
    - Cardinality({i \in 1..n : toks[i].kind \in Closers})

\* A Comma right before a closing bracket, inside the value the tokens start
\* with: no token before the closing bracket ends that value.
TrailingCommaInside(toks) ==
    \E i \in 1..(Len(toks) - 1) :
        /\ toks[i].kind = "Comma"
        /\ toks[i + 1].kind \in Closers
        /\ \A n \in 1..i : OpenAfter(toks, n) >= 1

\* C12: when an array or an object of the token buffer holds a Comma right
\* before its closing bracket, parse returns a ParseError and no Document.
C12_TrailingCommaRejected ==
    [][(pc = "parse" /\ TrailingCommaInside(tokens)) =>
          (pc' = "done" /\ result'.kind = "Err" /\ node' = NodeNull)]_vars

C12_Witness ==
    /\ pc = "done"
    /\ json = <<"{", "\"", "a", "\"", ":", "[", "1", ",", "]", ",",
                "\"", "b", "\"", ":", "1", "}">>
    /\ "parser" \in ran
    /\ result.kind = "Err"

\* The name by which the Debug form of Token shows a punctuation token.
TokenName(c) ==
    CASE c = ":" -> "Colon"
      [] c = "," -> "Comma"
      [] c = "}" -> "RightCurlyBranckt"
      [] c = "]" -> "RightSquareBrancket"

IsPrefix(p, s) == Len(p) <= Len(s) /\ SubSeq(s, 1, Len(p)) = p

\* C13: when the token at a place where the parser asks for a value is a
\* Colon, a Comma, a right brace or a right bracket, parse fails and the text
\* of its error names that token.
C13_ErrorNamesFoundToken ==
    \A ctx \in ValueContexts : \A c \in NonValueChars :
        (/\ pc = "done"
         /\ "parser" \in ran
         /\ IsPrefix(ctx \o <<c>>, json)
         /\ ~(ctx # <<>> /\ ctx[Len(ctx)] = "[" /\ c = "]")) =>
            /\ result.kind = "Err"
            /\ result.text = <<"Parse found an unexpected token ", TokenName(c),
                               " while parsing value.">>

C13_Witness ==
    /\ pc = "done"
    /\ json = <<"{", "\"", "a", "\"", ":", "}">>
    /\ result.kind = "Err"
    /\ result.text = <<"Parse found an unexpected token ", "RightCurlyBranckt",
                       " while parsing value.">>

\* The chars of a string literal after its opening quote when they run to
\* the end of the text with no unescaped closing quote: ordinary chars and
\* pairs of a backslash and an escape letter.
RECURSIVE OpenBody(_)
OpenBody(s) ==
    IF s = <<>> THEN TRUE
    ELSE IF s[1] = "\\"
    THEN Len(s) >= 2 /\ s[2] \in EscapeLetters /\ OpenBody(SubSeq(s, 3, Len(s)))
    ELSE s[1] # "\"" /\ CharCode[s[1]] >= 32 /\ OpenBody(Tail(s))

\* The next token of inp is a string literal that the end of inp cuts.
UnterminatedAtFront(inp) ==
    \E q \in 1..Len(inp) :
        /\ inp[q] = "\""
        /\ \A j \in 1..(q - 1) : inp[j] \in Blank
        /\ OpenBody(SubSeq(inp, q + 1, Len(inp)))

\* C14: a call of next_token with the cursor at a string literal that the
\* end of the input cuts before an unescaped closing quote returns the
\* end-of-input-during-string LexError: no String token, no abort.
C14_UnterminatedStringIsLexError ==
    [][(pc \in {"iter", "collect"} /\ UnterminatedAtFront(input)) =>
          /\ item'.kind = "Err"
          /\ item'.err = <<"The tokenizer reached EOF before finding \" which represents the end of a string">>]_vars

KeywordToken(w) ==
    CASE w = <<"t", "r", "u", "e">> -> TokBoolean(TRUE)
      [] w = <<"f", "a", "l", "s", "e">> -> TokBoolean(FALSE)
      [] w = <<"n", "u", "l", "l">> -> Tok("Null")

\* inp without the blanks at its front.
AfterBlanks(inp) ==
    LET n == CHOOSE k \in 0..Len(inp) :
                 /\ \A j \in 1..k : inp[j] \in Blank
                 /\ k = Len(inp) \/ inp[k + 1] \notin Blank
    IN SubSeq(inp, n + 1, Len(inp))

\* The number of chars at the front of s that spell the front of w.
Spelled(s, w) ==
    CHOOSE k \in 0..Len(w) :
        /\ k <= Len(s)
        /\ \A i \in 1..k : s[i] = w[i]
        /\ k = Len(w) \/ k = Len(s) \/ s[k + 1] # w[k + 1]

\* C15: a call of next() with the cursor at a `t`, `f` or `n` returns the
\* Boolean or Null token when the chars spell the whole keyword, and otherwise
\* a LexError naming the char the keyword expects and either the char found
\* in its place or the end of the input.
C15_KeywordSpelledExactly ==
    [][\A w \in Keywords :
          LET s == AfterBlanks(input)
              k == Spelled(s, w)
          IN (pc \in {"iter", "collect"} /\ s # <<>> /\ s[1] = w[1]) =>
                CASE k = Len(w) ->
                        /\ item'.kind = "Ok"
                        /\ item'.tok = KeywordToken(w)
                        /\ input' = SubSeq(s, k + 1, Len(s))
                  [] k < Len(w) /\ k = Len(s) ->
                        /\ item'.kind = "Err"
                        /\ item'.err = <<"The tokenizer expected ", w[k + 1],
                                         ", but reached EOF.">>
                  [] OTHER ->
                        /\ item'.kind = "Err"
                        /\ item'.err = <<"The tokenizer expected ", w[k + 1],
                                         ", but found ", s[k + 1], ".">>]_vars

C15_Witness ==
    /\ pc = "iter"
    /\ json = <<"f", "a", "l", "e">>
    /\ item.kind = "Err"
    /\ item.err = <<"The tokenizer expected ", "s", ", but found ", "e", ".">>

Spaces(k) == [i \in 1..k |-> " "]

\* No Array and no Object of the Document is empty.
RECURSIVE NoEmptyContainer(_)
NoEmptyContainer(n) ==
    /\ n.t \in {"Array", "Object"} => n.kids # <<>>
    /\ \A i \in 1..Len(n.kids) : NoEmptyContainer(n.kids[i].n)

\* The text of a Document without empty containers, for a value at nesting
\* depth d and the indent width w, counted in spaces from d and w.
RECURSIVE Layout(_, _, _)
Layout(n, d, w) ==
    CASE n.t = "Null" -> <<"n", "u", "l", "l">>
      [] n.t = "Number" -> n.s
      [] n.t = "String" -> <<"\"">> \o n.s \o <<"\"">>
      [] n.t = "Boolean" ->
            IF n.s = <<"true">> THEN <<"t", "r", "u", "e">>
            ELSE <<"f", "a", "l", "s", "e">>
      [] OTHER ->
            LET line(i) ==
                    Spaces((d + 1) * w)
                    \o (IF n.t = "Object"
                        THEN <<"\"">> \o n.kids[i].k \o <<"\"", ":", " ">>
                        ELSE <<>>)
                    \o Layout(n.kids[i].n, d + 1, w)
            IN <<IF n.t = "Object" THEN "{" ELSE "[", "LF">>
               \o Join([i \in 1..Len(n.kids) |-> line(i)], <<",", "LF">>)
               \o <<"LF">> \o Spaces(d * w)
               \o <<IF n.t = "Object" THEN "}" ELSE "]">>

\* C16: the text generated for a non-empty Array or Object at depth d and
\* indent width n is the open bracket, a newline, one line per element or
\* member starting with (d+1)*n spaces, `,` and a newline between the lines
\* and none after the last, a newline, d*n spaces and the close bracket; a
\* member line is `"<key>": <value>`.
C16_ContainerLayout ==
    (/\ pc = "done"
     /\ result.kind = "Ok"
     /\ node.t \in {"Array", "Object"}
     /\ NoEmptyContainer(node)) =>
        result.text = Layout(node, 0, indent_size)

C16_Witness ==
    /\ pc = "done"
    /\ result.kind = "Ok"
    /\ indent_size = 2
    /\ json \in NestedTexts
    /\ node.t = "Object"
    /\ NoEmptyContainer(node)
    /\ Len(result.text) > Len(json) + 20

OnlyBlanks(inp) == \A i \in 1..Len(inp) : inp[i] \in Blank

\* C17: next() never yields the end-of-input token as an item; called with
\* only blanks or nothing left it returns None and leaves only blanks or
\* nothing, so every later call returns None as well.
C17_IteratorEndsWithNone ==
    /\ [](item.kind = "Ok" => item.tok.kind # "Eof")
    /\ [][(pc \in {"iter", "collect"} /\ OnlyBlanks(input)) =>
             (item'.kind = "None" /\ OnlyBlanks(input'))]_vars

C17_Witness ==
    /\ pc = "iter"
    /\ item.kind = "None"
    /\ input = <<>>
    /\ Len(json) >= 3
    /\ json[Len(json)] = "CR"
    /\ json[1] \notin Blank

WsSources ==
    {[text |-> WsText(as, gaps), toks |-> [i \in 1..Len(as) |-> as[i].tok]] :
        as \in WsAtomSeqs, gaps \in GapPlans}

\* C18: the tokens collected from a text are the same whatever blanks
\* (space, tab, line feed, carriage return) stand before, between and after
\* them.
C18_BlanksBetweenTokensIgnored ==
    (pass = 1 /\ pc \in {"parse", "done", "aborted"} /\ json \in WsTexts) =>
        \A src \in WsSources :
            src.text = json =>
                /\ pc # "aborted"
                /\ pc = "done" => "parser" \in ran
                /\ pc = "parse" => tokens = src.toks

C18_Witness ==
    /\ pc = "parse"
    /\ pass = 1
    /\ json = <<"[", "LF", "TAB", "1", "2", "LF", "TAB", ",">>
    /\ tokens = <<Tok("LeftSquareBrancket"),
                  TokInt([neg |-> FALSE, mag |-> <<"1", "2">>]), Tok("Comma")>>

\* C19: an error of the tokenizer or of the parser ends pretty_json: the
\* result is Err with exactly the text that stage produced, no later stage
\* is called, and no output text exists.
C19_ErrorsEndTheRunUnmodified ==
    /\ []((pc = "done" /\ item.kind = "Err") =>
            /\ result.kind = "Err"
            /\ result.text = item.err
            /\ ran = {"tokenizer"})
    /\ [](result.kind = "Err" => pc = "done" /\ "generator" \notin ran)
    /\ [][(pc = "parse" /\ ~parse(tokens).ok) =>
             /\ pc' = "done"
             /\ result'.kind = "Err"
             /\ result'.text = parse(tokens).err
             /\ ran' = {"tokenizer", "parser"}]_vars
    /\ [][~(pc = "done" /\ result.kind = "Err")]_vars

C19_Witness ==
    /\ pc = "done"
    /\ item.kind = "Err"
    /\ Len(tokens) >= 2
    /\ tokens[1].kind = "RightSquareBrancket"
    /\ result.kind = "Err"
    /\ result.text = item.err

TokenStarts == Digits \cup {"-", "{", "}", "[", "]", ":", ",", "\"", "t", "f", "n"}

\* The next token of inp is a lexical error: a char that starts no token, a
\* keyword not spelled out, a '-' without a digit, a string literal cut by
\* the end of the text or holding a backslash before a char that is no
\* escape letter.
LexErrorAtFront(inp) ==
    LET s == AfterBlanks(inp)
    IN \/ s # <<>> /\ s[1] \notin TokenStarts
       \/ \E w \in Keywords : s # <<>> /\ s[1] = w[1] /\ Spelled(s, w) < Len(w)
       \/ BareMinusAtFront(inp)
       \/ UnterminatedAtFront(inp)
       \/ BadEscapeAtFront(inp)

\* C20: when the collecting of the tokens meets a lexical error, wherever in
\* the input and whatever tokens stand before it, pretty_json returns that
\* lexical error and the parser is never called.
C20_LexErrorBeforeAnyParsing ==
    [][(pc = "collect" /\ LexErrorAtFront(input)) =>
          /\ pc' = "done"
          /\ item'.kind = "Err"
          /\ result'.kind = "Err"
          /\ result'.text = item'.err
          /\ "parser" \notin ran']_vars

IsSuffix(s, t) == Len(s) <= Len(t) /\ SubSeq(t, Len(t) - Len(s) + 1, Len(t)) = s

\* The least number of tokens a Document is parsed from: one for a scalar;
\* for a container its two brackets, its elements or members (a key and a
\* colon with each member) and a comma between two of them.
RECURSIVE MinTokens(_)
MinTokens(n) ==
    IF n.t \notin {"Array", "Object"} THEN 1
    ELSE LET RECURSIVE Sum(_)
             Sum(i) ==
                 IF i = 0 THEN 0
                 ELSE Sum(i - 1) + MinTokens(n.kids[i].n)
                      + (IF n.t = "Object" THEN 2 ELSE 0)
         IN 2 + Sum(Len(n.kids))
            + (IF n.kids = <<>> THEN 0 ELSE Len(n.kids) - 1)

\* C21: parse returns for every token buffer, with a Document or with a
\* ParseError and never an abort; it only takes tokens off the front, at
\* least one per element, member and loop round of the Document it returns;
\* and for a buffer that is a proper prefix of the tokens of one complete
\* value it returns a ParseError.
C21_ParseTerminates ==
    /\ [](pc = "parse" => ENABLED Parse)
    /\ [][pc = "parse" =>
             /\ pc' \in {"generate", "done"}
             /\ IsSuffix(tokens', tokens)
             /\ pc' = "generate" =>
                   /\ result' = result
                   /\ Len(tokens) - Len(tokens') >= MinTokens(node')
             /\ pc' = "done" => result'.kind = "Err" /\ node' = NodeNull]_vars
    /\ [][(pc = "parse" /\ tokens \in ProperPrefixToks) =>
             (pc' = "done" /\ result'.kind = "Err")]_vars

C21_Witness ==
    /\ pc = "done"
    /\ pass = 1
    /\ json = <<"{", "\"", "a", "\"", ":", "[", "1", ",", "\"", "a", "\"">>
    /\ "parser" \in ran
    /\ tokens = <<>>
    /\ result = [kind |-> "Err",
                 text |-> <<"Expected a token ", "Comma">>]

====
